---- MODULE Spec2Model ----
(***************************************************************************)
(* Model of anharmonic/force_fit/fc4.py (class FC4Fit): collection of      *)
(* displacement pairs and forces, symmetry completion of the second atoms  *)
(* without data, the symmetry-expanded least-squares fit of fc2/fc3 and    *)
(* the final hand-over of fc4 to distribute_fc4.                           *)
(*                                                                         *)
(* Real numbers are not computed: the result of -pinv(disps).forces is     *)
(* kept as the symbolic pair (disps, forces) it is computed from, a slice  *)
(* of it as that pair with the slice's row range, a sum as the sequence of *)
(* its terms and a division as the sequence of its divisors.               *)
(***************************************************************************)
EXTENDS Integers, Sequences, FiniteSets, TLC

\* ------------------------------------------------------------------------
\* Bounds of the model
\* ------------------------------------------------------------------------
NumAtom == 3

MaxFirst == 2

MaxRepeat == 1

Atoms == 0 .. (NumAtom - 1)

\* ------------------------------------------------------------------------
\* 3-vectors and 3x3 matrices (numpy dot / outer / flatten / transpose)
\* ------------------------------------------------------------------------
Identity == << <<1, 0, 0>>, <<0, 1, 0>>, <<0, 0, 1>> >>

\* np.dot(M, v) for a 3x3 matrix and a 3-vector
Dot(M, v) ==
    << M[1][1] * v[1] + M[1][2] * v[2] + M[1][3] * v[3],
       M[2][1] * v[1] + M[2][2] * v[2] + M[2][3] * v[3],
       M[3][1] * v[1] + M[3][2] * v[2] + M[3][3] * v[3] >>

\* np.dot(v, M) for a 3-vector (a row) and a 3x3 matrix
RowDot(v, M) ==
    << v[1] * M[1][1] + v[2] * M[2][1] + v[3] * M[3][1],
       v[1] * M[1][2] + v[2] * M[2][2] + v[3] * M[3][2],
       v[1] * M[1][3] + v[2] * M[2][3] + v[3] * M[3][3] >>

Transpose(M) ==
    << <<M[1][1], M[2][1], M[3][1]>>,
       <<M[1][2], M[2][2], M[3][2]>>,
       <<M[1][3], M[2][3], M[3][3]>> >>

MatMul(A, B) ==
    << RowDot(A[1], B), RowDot(A[2], B), RowDot(A[3], B) >>

\* np.outer(a, b).flatten(): entry 3*(i-1)+j is a[i]*b[j]
OuterFlatten(a, b) ==
    << a[1] * b[1], a[1] * b[2], a[1] * b[3],
       a[2] * b[1], a[2] * b[2], a[2] * b[3],
       a[3] * b[1], a[3] * b[2], a[3] * b[3] >>

RECURSIVE Flatten(_)
\* np.vstack / nested list comprehension: the lists of a list, one after another
Flatten(ss) ==
    IF Len(ss) = 0 THEN << >> ELSE Head(ss) \o Flatten(Tail(ss))

\* ------------------------------------------------------------------------
\* Supercell and symmetry (external collaborators of FC4Fit)
\* A chain of NumAtom equally spaced atoms along the first lattice vector of
\* a sheared cell, so that fractional and Cartesian rotations differ.
\* ------------------------------------------------------------------------
\* self._lattice = supercell.get_cell().T : columns are the lattice vectors
Lattice == << <<1, 1, 0>>, <<0, 1, 0>>, <<0, 0, 1>> >>

\* np.linalg.inv(self._lattice)
LatticeInv == << <<1, -1, 0>>, <<0, 1, 0>>, <<0, 0, 1>> >>

\* self._positions, as numerators over NumAtom (atom i sits at i/NumAtom)
Positions == [i \in Atoms |-> <<i, 0, 0>>]

\* self._positions.copy() - self._positions[first_atom_num]
RelPositions(first_atom_num) ==
    [i \in Atoms |-> <<Positions[i][1] - Positions[first_atom_num][1],
                       Positions[i][2] - Positions[first_atom_num][2],
                       Positions[i][3] - Positions[first_atom_num][3]>>]

\* Rotations of the site symmetry, in fractional coordinates: identity, the
\* mirror z -> -z, the mirror x -> -x and their product.
RotE == Identity

RotMz == << <<1, 0, 0>>, <<0, 1, 0>>, <<0, 0, -1>> >>

RotMx == << <<-1, -2, 0>>, <<0, 1, 0>>, <<0, 0, 1>> >>

RotMxMz == << <<-1, -2, 0>>, <<0, 1, 0>>, <<0, 0, -1>> >>

\* symmetry.get_site_symmetry(atom): the same rotations at every atom of the chain
get_site_symmetry(atom) == << RotE, RotMz, RotMx, RotMxMz >>

\* similarity_transformation(rot, mat) = rot . mat . rot^-1
similarity_transformation(rot, mat) ==
    LET inv == CHOOSE X \in {Identity, Lattice, LatticeInv} : MatMul(rot, X) = Identity
    IN  MatMul(rot, MatMul(mat, inv))

\* get_reduced_site_symmetry: the rotations that keep the direction
get_reduced_site_symmetry(site_sym, direction) ==
    SelectSeq(site_sym, LAMBDA rot : Dot(rot, direction) = direction)

\* Two fractional positions (numerators over NumAtom) differ by a lattice vector
SamePosition(p, q) ==
    \A c \in 1 .. 3 : (p[c] - q[c]) % NumAtom = 0

\* get_positions_sent_by_rot_inv: rot_map[k][j] = i where rotation k sends
\* atom i onto atom j
get_positions_sent_by_rot_inv(positions, site_symmetry) ==
    [k \in 1 .. Len(site_symmetry) |->
        [j \in Atoms |->
            CHOOSE i \in Atoms :
                SamePosition(Dot(site_symmetry[k], positions[i]), positions[j])]]

\* ------------------------------------------------------------------------
\* The displacement dataset (input of FC4Fit.__init__)
\* ------------------------------------------------------------------------
\* Cartesian displacements of the first atom: along y, along z, along x
DisplacementCycle == << <<0, 1, 0>>, <<0, 0, 1>>, <<1, 0, 0>> >>

\* The displacement of the r-th record: the records of a dataset go through
\* the three directions in turn
FirstDisplacement(r) ==
    DisplacementCycle[((r - 1) % Len(DisplacementCycle)) + 1]

\* The displacement of the e-th second-atom entry of the r-th record
SecondDisplacement(r, e) == <<e, r, 1>>

\* The force array (num_atom x 3) of the e-th second-atom entry of the r-th record
ForceArray(r, e) == [i \in Atoms |-> <<r, e, i + 1>>]

SeqsUpTo(S, lo, hi) == UNION { [1 .. n -> S] : n \in lo .. hi }

\* One entry of dataset['first_atoms']
FirstAtomRecord(r, number, disp1, second_nums) ==
    [number       |-> number,
     displacement |-> disp1,
     second_atoms |-> [e \in 1 .. Len(second_nums) |->
                          [number       |-> second_nums[e],
                           displacement |-> SecondDisplacement(r, e),
                           forces       |-> ForceArray(r, e)]]]

\* The second-atom numbers of a record: atoms 0 .. m-1 once each, followed by
\* at most MaxRepeat further samples of one of these atoms
SecondAtomLists ==
    { [e \in 1 .. (u[1] + u[3]) |-> IF e <= u[1] THEN e - 1 ELSE u[2]] :
        u \in { v \in (0 .. NumAtom) \X Atoms \X (0 .. MaxRepeat) :
                  v[2] < v[1] \/ (v[2] = 0 /\ v[3] = 0) } }

\* The datasets the model is run on: at most MaxFirst records; every record
\* has the same second atoms, except that the last record may have none
Datasets ==
    { [first_atoms |-> [r \in 1 .. Len(t[1]) |->
                           FirstAtomRecord(r, t[1][r], FirstDisplacement(r),
                                           IF t[2] /\ r = Len(t[1])
                                           THEN << >> ELSE t[3])]] :
        t \in SeqsUpTo(Atoms, 0, MaxFirst) \X BOOLEAN \X SecondAtomLists }

\* ------------------------------------------------------------------------
\* Values of the tensors and of the lists that may hold None
\* ------------------------------------------------------------------------
None == [none |-> TRUE, list |-> << >>]

Some(l) == [none |-> FALSE, list |-> l]

\* An entry of a zero-initialized tensor that was never written
Zero == [kind |-> "zero"]

\* ------------------------------------------------------------------------
\* _collect_disp_pairs_and_forces and symmetry completion
\* ------------------------------------------------------------------------
\* np.unique([x['number'] for x in dataset_1st['second_atoms']]), used for "in"
UniqueSecondAtomNums(dataset_1st) ==
    { dataset_1st.second_atoms[e].number : e \in 1 .. Len(dataset_1st.second_atoms) }

\* Mutant of EntriesOf: a later entry replaces the earlier ones of its atom
EntriesOfLastOnly(dataset_1st, second_atom_num) ==
    LET es == SelectSeq(dataset_1st.second_atoms, LAMBDA x : x.number = second_atom_num)
    IN  IF Len(es) = 0 THEN es ELSE <<es[Len(es)]>>

\* The entries of second_atoms whose number is second_atom_num, in their order
EntriesOf(dataset_1st, second_atom_num) ==
    SelectSeq(dataset_1st.second_atoms, LAMBDA x : x.number = second_atom_num)

\* set_of_disps as built by the loop of _collect_disp_pairs_and_forces
CollectSetOfDisps(dataset_1st) ==
    [b \in Atoms |->
        IF b \in UniqueSecondAtomNums(dataset_1st)
        THEN LET es == EntriesOf(dataset_1st, b)
             IN  Some([j \in 1 .. Len(es) |-> es[j].displacement])
        ELSE None]

\* sets_of_forces as built by the loop of _collect_disp_pairs_and_forces
CollectSetsOfForces(dataset_1st) ==
    [b \in Atoms |->
        IF b \in UniqueSecondAtomNums(dataset_1st)
        THEN LET es == EntriesOf(dataset_1st, b)
             IN  Some([j \in 1 .. Len(es) |-> es[j].forces])
        ELSE None]

RECURSIVE FindSymmetryNoBreak(_, _, _, _)
\* Mutant of FindSymmetry: the loop has no break, the last operation found wins
FindSymmetryNoBreak(i, second_atom_num, unique_second_atom_nums, rot_map_syms) ==
    IF i > Len(rot_map_syms) THEN 0
    ELSE LET later == FindSymmetryNoBreak(i + 1, second_atom_num,
                                          unique_second_atom_nums, rot_map_syms)
         IN  IF later # 0 THEN later
             ELSE IF rot_map_syms[i][second_atom_num] \in unique_second_atom_nums THEN i
             ELSE 0

RECURSIVE FindSymmetry(_, _, _, _)
\* The loop of _copy_dataset_2nd: the index of the first operation, from i on,
\* whose map of second_atom_num is in unique_second_atom_nums; 0 when there is
\* none (sym_cart stays None)
FindSymmetry(i, second_atom_num, unique_second_atom_nums, rot_map_syms) ==
    IF i > Len(rot_map_syms) THEN 0
    ELSE IF rot_map_syms[i][second_atom_num] \in unique_second_atom_nums THEN i
    ELSE FindSymmetry(i + 1, second_atom_num, unique_second_atom_nums, rot_map_syms)

\* Mutant of CopyForces: the atom axis of the force array is not permuted
CopyForcesUnpermuted(second_atom_num, sets_of_forces, sym_cart, rot_atom_map) ==
    LET orig == sets_of_forces[rot_atom_map[second_atom_num]].list
    IN  [j \in 1 .. Len(orig) |->
            [i \in Atoms |-> RowDot(orig[j][i], Transpose(sym_cart))]]

\* The forces built by _copy_dataset_2nd with the operation found
CopyForces(second_atom_num, sets_of_forces, sym_cart, rot_atom_map) ==
    LET orig == sets_of_forces[rot_atom_map[second_atom_num]].list
    IN  [j \in 1 .. Len(orig) |->
            [i \in Atoms |-> RowDot(orig[j][rot_atom_map[i]], Transpose(sym_cart))]]

\* The displacements built by _copy_dataset_2nd with the operation found
CopyDisps(second_atom_num, set_of_disps, sym_cart, rot_atom_map) ==
    LET orig == set_of_disps[rot_atom_map[second_atom_num]].list
    IN  [j \in 1 .. Len(orig) |-> Dot(sym_cart, orig[j])]

\* Mutant of copy_dataset_2nd: without an operation, empty lists are returned
\* instead of failing
copy_dataset_2nd_tolerant(second_atom_num, set_of_disps, sets_of_forces, unique_second_atom_nums, reduced_site_sym, rot_map_syms) ==
    LET k == FindSymmetry(1, second_atom_num, unique_second_atom_nums, rot_map_syms)
    IN  IF k = 0
        THEN [found |-> TRUE, op |-> 0, forces |-> << >>, disps |-> << >>]
        ELSE LET sym_cart == similarity_transformation(Lattice, reduced_site_sym[k])
                 rot_atom_map == rot_map_syms[k]
             IN  [found  |-> TRUE,
                  op     |-> k,
                  forces |-> CopyForces(second_atom_num, sets_of_forces, sym_cart, rot_atom_map),
                  disps  |-> CopyDisps(second_atom_num, set_of_disps, sym_cart, rot_atom_map)]

\* _copy_dataset_2nd: found = FALSE is the failed assertion
copy_dataset_2nd(second_atom_num, set_of_disps, sets_of_forces, unique_second_atom_nums, reduced_site_sym, rot_map_syms) ==
    LET k == FindSymmetry(1, second_atom_num, unique_second_atom_nums, rot_map_syms)
    IN  IF k = 0
        THEN [found |-> FALSE, op |-> 0, forces |-> << >>, disps |-> << >>]
        ELSE LET sym_cart == similarity_transformation(Lattice, reduced_site_sym[k])
                 rot_atom_map == rot_map_syms[k]
             IN  [found  |-> TRUE,
                  op     |-> k,
                  forces |-> CopyForces(second_atom_num, sets_of_forces, sym_cart, rot_atom_map),
                  disps  |-> CopyDisps(second_atom_num, set_of_disps, sym_cart, rot_atom_map)]

RECURSIVE DistributeLoop(_, _, _, _, _, _, _)
\* The loop of _distribute_displacements_and_forces from second atom b on;
\* acc holds disp_pairs, the (updated in place) sets_of_forces and the
\* operation used for each second atom (0: direct data)
DistributeLoop(b, acc, set_of_disps, disp1, unique_second_atom_nums, reduced_site_sym, rot_map_syms) ==
    IF b > NumAtom - 1 THEN acc
    ELSE IF ~ set_of_disps[b].none
    THEN DistributeLoop(b + 1,
            [acc EXCEPT !.disp_pairs[b] =
                 [j \in 1 .. Len(set_of_disps[b].list) |-> <<disp1, set_of_disps[b].list[j]>>]],
            set_of_disps, disp1, unique_second_atom_nums, reduced_site_sym, rot_map_syms)
    ELSE LET c == copy_dataset_2nd(b, set_of_disps, acc.sets_of_forces,
                                   unique_second_atom_nums, reduced_site_sym, rot_map_syms)
         IN  IF ~ c.found
             THEN [acc EXCEPT !.ok = FALSE, !.failed_at = b]
             ELSE DistributeLoop(b + 1,
                    [acc EXCEPT !.disp_pairs[b] =
                                    [j \in 1 .. Len(c.disps) |-> <<disp1, c.disps[j]>>],
                                !.sets_of_forces[b] = Some(c.forces),
                                !.ops[b] = c.op],
                    set_of_disps, disp1, unique_second_atom_nums, reduced_site_sym, rot_map_syms)

\* _distribute_displacements_and_forces
distribute_displacements_and_forces(set_of_disps, sets_of_forces, first_atom_num, disp1, unique_second_atom_nums) ==
    LET site_symmetry == get_site_symmetry(first_atom_num)
        direction == Dot(LatticeInv, disp1)
        reduced_site_sym == get_reduced_site_symmetry(site_symmetry, direction)
        positions == RelPositions(first_atom_num)
        rot_map_syms == get_positions_sent_by_rot_inv(positions, reduced_site_sym)
    IN  DistributeLoop(0,
            [ok |-> TRUE, failed_at |-> 0,
             disp_pairs |-> [b \in Atoms |-> << >>],
             sets_of_forces |-> sets_of_forces,
             ops |-> [b \in Atoms |-> 0]],
            set_of_disps, disp1, unique_second_atom_nums, reduced_site_sym, rot_map_syms)

\* _collect_disp_pairs_and_forces
collect_disp_pairs_and_forces(dataset_1st) ==
    distribute_displacements_and_forces(
        CollectSetOfDisps(dataset_1st),
        CollectSetsOfForces(dataset_1st),
        dataset_1st.number,
        dataset_1st.displacement,
        UniqueSecondAtomNums(dataset_1st))

\* ------------------------------------------------------------------------
\* _fit and its helpers
\* ------------------------------------------------------------------------
\* One row of np.hstack((ones, rot_disps1, rot_disps2, rot_disps_pair))
DesignRow(Su1, Su2) == <<1>> \o Su1 \o Su2 \o OuterFlatten(Su1, Su2)

\* _create_displacement_matrix, for the data of one direction
create_displacement_matrix(disp_pairs, site_symmetry, rot_atom_map) ==
    Flatten([s \in 1 .. Len(site_symmetry) |->
        LET ssym_c == similarity_transformation(Lattice, site_symmetry[s])
            pairs == disp_pairs[rot_atom_map[s]]
        IN  [j \in 1 .. Len(pairs) |->
                DesignRow(Dot(ssym_c, pairs[j][1]), Dot(ssym_c, pairs[j][2]))]])

\* Mutant of create_force_matrix: the samples are taken from the list of the
\* atom that atom i is mapped to, not of the atom the second atom is mapped to
create_force_matrix_wrong_list(sets_of_forces, site_symmetry, rot_atom_map, rot_map_syms) ==
    [i \in Atoms |->
        Flatten([s \in 1 .. Len(site_symmetry) |->
            LET sym == similarity_transformation(Lattice, site_symmetry[s])
                fs == sets_of_forces[rot_map_syms[s][i]].list
            IN  [j \in 1 .. Len(fs) |-> Dot(sym, fs[j][rot_map_syms[s][i]])]])]

\* _create_force_matrix, for the data of one direction: one matrix per atom i
create_force_matrix(sets_of_forces, site_symmetry, rot_atom_map, rot_map_syms) ==
    [i \in Atoms |->
        Flatten([s \in 1 .. Len(site_symmetry) |->
            LET sym == similarity_transformation(Lattice, site_symmetry[s])
                fs == sets_of_forces[rot_atom_map[s]].list
            IN  [j \in 1 .. Len(fs) |-> Dot(sym, fs[j][rot_map_syms[s][i]])]])]

\* _solve: fc[i] = -np.dot(np.linalg.pinv(disps), forces), kept as the pair
\* of stacked matrices it is computed from
solve(rot_disps, rot_forces) ==
    LET disps == Flatten(rot_disps)
    IN  [i \in Atoms |->
            [kind   |-> "lstsq",
             disps  |-> disps,
             forces |-> Flatten([d \in 1 .. Len(rot_forces) |-> rot_forces[d][i]])]]

\* fc[:, lo:hi, :] : rows lo .. hi-1 of every atom's coefficients
Slice(fc, lo, hi) ==
    [i \in Atoms |-> [kind |-> "slice", rows |-> <<lo, hi>>, of |-> fc[i]]]

\* fc2 = fc[:, 1:4, :]
ForwardBlock(fc) == Slice(fc, 1, 4)

\* fc2_b = fc[:, 4:7, :]
ReverseBlock(fc) == Slice(fc, 4, 7)

\* fc3 = fc[:, 7:, :]
Fc3Block(fc) == Slice(fc, 7, 16)

\* x += t on one tensor entry
Add(x, t) == [kind |-> "add", left |-> x, right |-> t]

\* x /= n on one tensor entry
Div(x, n) == [kind |-> "div", num |-> x, den |-> n]

\* The body of the loop over second_atom_num in _fit: the solved coefficients
FitSecondAtom(second_atom_num, site_symmetry, rot_map_syms, disp_pairs, sets_of_forces) ==
    LET rot_atom_map == [s \in 1 .. Len(rot_map_syms) |-> rot_map_syms[s][second_atom_num]]
        rot_disps == [d \in 1 .. Len(disp_pairs) |->
                         create_displacement_matrix(disp_pairs[d], site_symmetry, rot_atom_map)]
        rot_forces == [d \in 1 .. Len(sets_of_forces) |->
                          create_force_matrix(sets_of_forces[d], site_symmetry,
                                              rot_atom_map, rot_map_syms)]
    IN  solve(rot_disps, rot_forces)

\* Mutant of StoreBlocks: the reverse block fc2_b is accumulated into fc2
StoreBlocksReverse(t, first_atom_num, second_atom_num, fc) ==
    LET fc2_b == ReverseBlock(fc)
        fc3 == Fc3Block(fc)
    IN  [fc2 |-> [t.fc2 EXCEPT ![first_atom_num] =
                     [i \in Atoms |-> Add(t.fc2[first_atom_num][i], fc2_b[i])]],
         fc3 |-> [t.fc3 EXCEPT ![first_atom_num][second_atom_num] = fc3],
         writes |-> [t.writes EXCEPT ![first_atom_num][second_atom_num] = @ + 1]]

\* Mutant of StoreBlocks: the fc3 block is stored with the two atom indices
\* exchanged
StoreBlocksSwapped(t, first_atom_num, second_atom_num, fc) ==
    LET fc2 == ForwardBlock(fc)
        fc3 == Fc3Block(fc)
    IN  [fc2 |-> [t.fc2 EXCEPT ![first_atom_num] =
                     [i \in Atoms |-> Add(t.fc2[first_atom_num][i], fc2[i])]],
         fc3 |-> [t.fc3 EXCEPT ![second_atom_num][first_atom_num] = fc3],
         writes |-> [t.writes EXCEPT ![second_atom_num][first_atom_num] = @ + 1]]

\* self._fc2[first_atom_num] += fc2 ; self._fc3[first_atom_num, second_atom_num] = fc3
StoreBlocks(t, first_atom_num, second_atom_num, fc) ==
    LET fc2 == ForwardBlock(fc)
        fc2_b == ReverseBlock(fc)
        fc3 == Fc3Block(fc)
    IN  [fc2 |-> [t.fc2 EXCEPT ![first_atom_num] =
                     [i \in Atoms |-> Add(t.fc2[first_atom_num][i], fc2[i])]],
         fc3 |-> [t.fc3 EXCEPT ![first_atom_num][second_atom_num] = fc3],
         writes |-> [t.writes EXCEPT ![first_atom_num][second_atom_num] = @ + 1]]

\* self._fc2[first_atom_num] /= self._num_atom
Normalize(t, first_atom_num) ==
    [t EXCEPT !.fc2[first_atom_num] =
        [i \in Atoms |-> Div(t.fc2[first_atom_num][i], NumAtom)]]

RECURSIVE FitLoop(_, _, _, _, _, _, _)
\* The loop of _fit over the second atoms, from second_atom_num on
FitLoop(second_atom_num, t, first_atom_num, site_symmetry, rot_map_syms, disp_pairs, sets_of_forces) ==
    IF second_atom_num > NumAtom - 1 THEN t
    ELSE FitLoop(second_atom_num + 1,
            StoreBlocks(t, first_atom_num, second_atom_num,
                FitSecondAtom(second_atom_num, site_symmetry, rot_map_syms,
                              disp_pairs, sets_of_forces)),
            first_atom_num, site_symmetry, rot_map_syms, disp_pairs, sets_of_forces)

\* _fit: t holds fc2, fc3 and the number of assignments to each fc3[a, b]
fit(t, first_atom_num, disp_pairs, sets_of_forces) ==
    LET site_symmetry == get_site_symmetry(first_atom_num)
        positions == RelPositions(first_atom_num)
        rot_map_syms == get_positions_sent_by_rot_inv(positions, site_symmetry)
    IN  Normalize(
            FitLoop(0, t, first_atom_num, site_symmetry, rot_map_syms,
                    disp_pairs, sets_of_forces),
            first_atom_num)

\* ------------------------------------------------------------------------
\* distribute_fc4 (external): every first atom's slice is filled from the
\* slice of a representative first atom; the image of a zero slice is zero
\* ------------------------------------------------------------------------
distribute_fc4(tensor, first_atoms) ==
    IF first_atoms = {} THEN tensor
    ELSE [a \in Atoms |->
            IF a \in first_atoms THEN tensor[a]
            ELSE LET rep == CHOOSE r \in first_atoms : \A q \in first_atoms : r <= q
                 IN  IF tensor[rep].kind = "zero" THEN Zero
                     ELSE [kind |-> "image", from |-> rep, of |-> tensor[rep]]]

\* ------------------------------------------------------------------------
\* The state of a run of FC4Fit.run()
\* ------------------------------------------------------------------------
VARIABLES
    dataset,         \* self._dataset
    fc2,             \* self._fc2[a][i]
    fc3,             \* self._fc3[a][b][i]
    fc4,             \* self._fc4[a]
    pc,              \* where _calculate is
    ui,              \* position of first_atom_num in unique_first_atom_nums
    ri,              \* position of dataset_1st in dataset['first_atoms']
    disp_pairs,      \* disp_pairs of _calculate: one entry per direction
    sets_of_forces,  \* sets_of_forces of _calculate: one entry per direction
    collected,       \* the records the entries of disp_pairs were collected from
    copy_ops,        \* per direction and second atom, the operation completion used
    fc3_writes,      \* how many times fc3[a, b] was assigned
    fit_count,       \* how many times _fit ran for each first atom
    dist_count,      \* how many times distribute_fc4 was called
    diag,            \* the exception that ended run(): its message and the atoms it names
    failed_pair      \* (first atom, second atom) the assertion failed for

vars == <<dataset, fc2, fc3, fc4, pc, ui, ri, disp_pairs, sets_of_forces, collected, copy_ops, fc3_writes, fit_count, dist_count, diag, failed_pair>>

\* No exception was raised
NoError == [message |-> "", atoms |-> << >>]

\* assert sym_cart is not None, "Something is wrong."
AssertionError == [message |-> "Something is wrong.", atoms |-> << >>]

RECURSIVE SortedSeq(_)
\* The elements of a set of numbers in increasing order
SortedSeq(S) ==
    IF S = {} THEN << >>
    ELSE LET m == CHOOSE x \in S : \A y \in S : x <= y
         IN  <<m>> \o SortedSeq(S \ {m})

\* Mutant of unique_first_atom_nums: the numbers of the records as they come,
\* duplicates kept
first_atom_nums_with_duplicates ==
    [r \in 1 .. Len(dataset.first_atoms) |-> dataset.first_atoms[r].number]

\* np.unique([x['number'] for x in dataset['first_atoms']])
unique_first_atom_nums ==
    SortedSeq({ dataset.first_atoms[r].number : r \in 1 .. Len(dataset.first_atoms) })

\* The state after FC4Fit.__init__ and on entry of _calculate
Init ==
    /\ dataset \in Datasets
    /\ fc2 = [a \in Atoms |-> [i \in Atoms |-> Zero]]
    /\ fc3 = [a \in Atoms |-> [b \in Atoms |-> [i \in Atoms |-> Zero]]]
    /\ fc4 = [a \in Atoms |-> Zero]
    /\ pc = "for_first"
    /\ ui = 1
    /\ ri = 1
    /\ disp_pairs = << >>
    /\ sets_of_forces = << >>
    /\ collected = << >>
    /\ copy_ops = << >>
    /\ fc3_writes = [a \in Atoms |-> [b \in Atoms |-> 0]]
    /\ fit_count = [a \in Atoms |-> 0]
    /\ dist_count = 0
    /\ diag = NoError
    /\ failed_pair = << >>

\* for first_atom_num in unique_first_atom_nums: disp_pairs = []; sets_of_forces = []
BeginFirstAtom ==
    /\ pc = "for_first"
    /\ ui <= Len(unique_first_atom_nums)
    /\ disp_pairs' = << >>
    /\ sets_of_forces' = << >>
    /\ collected' = << >>
    /\ copy_ops' = << >>
    /\ ri' = 1
    /\ pc' = "for_record"
    /\ UNCHANGED <<dataset, fc2, fc3, fc4, ui, fc3_writes, fit_count, dist_count, diag, failed_pair>>

\* if first_atom_num != dataset_1st['number']: continue
SkipRecord ==
    /\ pc = "for_record"
    /\ ri <= Len(dataset.first_atoms)
    /\ dataset.first_atoms[ri].number # unique_first_atom_nums[ui]
    /\ ri' = ri + 1
    /\ UNCHANGED <<dataset, fc2, fc3, fc4, pc, ui, disp_pairs, sets_of_forces, collected, copy_ops, fc3_writes, fit_count, dist_count, diag, failed_pair>>

\* _collect_disp_pairs_and_forces(dataset_1st) returns; both results are appended
CollectRecord ==
    /\ pc = "for_record"
    /\ ri <= Len(dataset.first_atoms)
    /\ dataset.first_atoms[ri].number = unique_first_atom_nums[ui]
    /\ LET c == collect_disp_pairs_and_forces(dataset.first_atoms[ri])
       IN  /\ c.ok
           /\ disp_pairs' = Append(disp_pairs, c.disp_pairs)
           /\ sets_of_forces' = Append(sets_of_forces, c.sets_of_forces)
           /\ copy_ops' = Append(copy_ops, c.ops)
    /\ collected' = Append(collected, ri)
    /\ ri' = ri + 1
    /\ UNCHANGED <<dataset, fc2, fc3, fc4, pc, ui, fc3_writes, fit_count, dist_count, diag, failed_pair>>

\* Mutant of CollectAbort: the failure is swallowed and the record is skipped
CollectSkipOnFailure ==
    /\ pc = "for_record"
    /\ ri <= Len(dataset.first_atoms)
    /\ dataset.first_atoms[ri].number = unique_first_atom_nums[ui]
    /\ ~ collect_disp_pairs_and_forces(dataset.first_atoms[ri]).ok
    /\ ri' = ri + 1
    /\ UNCHANGED <<dataset, fc2, fc3, fc4, pc, ui, disp_pairs, sets_of_forces, collected, copy_ops, fc3_writes, fit_count, dist_count, diag, failed_pair>>

\* _collect_disp_pairs_and_forces(dataset_1st) fails the assertion of
\* _copy_dataset_2nd; the AssertionError leaves run()
CollectAbort ==
    /\ pc = "for_record"
    /\ ri <= Len(dataset.first_atoms)
    /\ dataset.first_atoms[ri].number = unique_first_atom_nums[ui]
    /\ LET c == collect_disp_pairs_and_forces(dataset.first_atoms[ri])
       IN  /\ ~ c.ok
           /\ failed_pair' = <<dataset.first_atoms[ri].number, c.failed_at>>
    /\ diag' = AssertionError
    /\ pc' = "abort"
    /\ UNCHANGED <<dataset, fc2, fc3, fc4, ui, ri, disp_pairs, sets_of_forces, collected, copy_ops, fc3_writes, fit_count, dist_count>>

\* self._fit(first_atom_num, disp_pairs, sets_of_forces)
Fit ==
    /\ pc = "for_record"
    /\ ri > Len(dataset.first_atoms)
    /\ LET t == fit([fc2 |-> fc2, fc3 |-> fc3, writes |-> fc3_writes],
                    unique_first_atom_nums[ui], disp_pairs, sets_of_forces)
       IN  /\ fc2' = t.fc2
           /\ fc3' = t.fc3
           /\ fc3_writes' = t.writes
    /\ fit_count' = [fit_count EXCEPT ![unique_first_atom_nums[ui]] = @ + 1]
    /\ ui' = ui + 1
    /\ pc' = "for_first"
    /\ UNCHANGED <<dataset, fc4, ri, disp_pairs, sets_of_forces, collected, copy_ops, dist_count, diag, failed_pair>>

\* distribute_fc4(self._fc4, unique_first_atom_nums, ...) ; run() returns
Distribute ==
    /\ pc = "for_first"
    /\ ui > Len(unique_first_atom_nums)
    /\ fc4' = distribute_fc4(fc4, { unique_first_atom_nums[u] : u \in 1 .. Len(unique_first_atom_nums) })
    /\ dist_count' = dist_count + 1
    /\ pc' = "done"
    /\ UNCHANGED <<dataset, fc2, fc3, ui, ri, disp_pairs, sets_of_forces, collected, copy_ops, fc3_writes, fit_count, diag, failed_pair>>

Next ==
    \/ BeginFirstAtom
    \/ SkipRecord
    \/ CollectRecord
    \/ CollectAbort
    \/ Fit
    \/ Distribute

Spec == Init /\ [][Next]_vars

\* ------------------------------------------------------------------------
\* Notions shared by the properties
\* ------------------------------------------------------------------------
\* The record the d-th entry of disp_pairs was collected from
RecordOf(d) == dataset.first_atoms[collected[d]]

\* The positions, in increasing order, of the entries of a record whose
\* number is b
PositionsOf(rec, b) ==
    SortedSeq({ e \in 1 .. Len(rec.second_atoms) : rec.second_atoms[e].number = b })

\* The second atoms a record has direct samples for
DirectAtoms(rec) ==
    { b \in Atoms : \E e \in 1 .. Len(rec.second_atoms) : rec.second_atoms[e].number = b }

\* The reduced site symmetry of a record, and its rotation atom map
ReducedOf(rec) ==
    get_reduced_site_symmetry(get_site_symmetry(rec.number),
                              Dot(LatticeInv, rec.displacement))

ReducedMapOf(rec) ==
    get_positions_sent_by_rot_inv(RelPositions(rec.number), ReducedOf(rec))

\* ------------------------------------------------------------------------
\* C6: Collector grouping. For every collected record and every second atom
\* b that occurs in it, the collected list of b holds exactly the record's
\* entries whose number is b, in the record's order, duplicates included;
\* the j-th displacement pair is [first-atom displacement, the entry's
\* displacement] and the j-th force array is that entry's force array.
\* ------------------------------------------------------------------------
C6_CollectorGrouping ==
    \A d \in 1 .. Len(disp_pairs) :
        LET rec == RecordOf(d)
        IN  \A b \in DirectAtoms(rec) :
                LET pos == PositionsOf(rec, b)
                IN  /\ Len(disp_pairs[d][b]) = Len(pos)
                    /\ ~ sets_of_forces[d][b].none
                    /\ Len(sets_of_forces[d][b].list) = Len(pos)
                    /\ \A j \in 1 .. Len(pos) :
                          /\ disp_pairs[d][b][j] =
                                <<rec.displacement, rec.second_atoms[pos[j]].displacement>>
                          /\ sets_of_forces[d][b].list[j] = rec.second_atoms[pos[j]].forces

\* A record with two samples of one second atom, not adjacent in the record,
\* was collected
C6_Witness ==
    \E d \in 1 .. Len(disp_pairs) :
        \E b \in DirectAtoms(RecordOf(d)) :
            /\ Len(disp_pairs[d][b]) >= 2
            /\ PositionsOf(RecordOf(d), b)[2] > PositionsOf(RecordOf(d), b)[1] + 1

\* ------------------------------------------------------------------------
\* C4: Choice of the completion source. For every second atom b without a
\* direct sample, completion used the first operation k, in the order of the
\* reduced site symmetry, whose map of b is an atom with direct samples in
\* the original record; the source is therefore a directly measured atom.
\* Second atoms with direct samples use no operation.
\* ------------------------------------------------------------------------
C4_FirstOperationWins ==
    \A d \in 1 .. Len(disp_pairs) :
        LET rec == RecordOf(d)
            map == ReducedMapOf(rec)
        IN  \A b \in Atoms :
                IF b \in DirectAtoms(rec)
                THEN copy_ops[d][b] = 0
                ELSE LET k == copy_ops[d][b]
                     IN  /\ k \in 1 .. Len(map)
                         /\ map[k][b] \in DirectAtoms(rec)
                         /\ \A h \in 1 .. (k - 1) : map[h][b] \notin DirectAtoms(rec)

\* A completed second atom for which a later operation was valid as well and
\* an earlier one was not
C4_Witness ==
    \E d \in 1 .. Len(disp_pairs) :
        LET rec == RecordOf(d)
            map == ReducedMapOf(rec)
        IN  \E b \in Atoms \ DirectAtoms(rec) :
                /\ copy_ops[d][b] > 1
                /\ \E h \in (copy_ops[d][b] + 1) .. Len(map) : map[h][b] \in DirectAtoms(rec)

\* ------------------------------------------------------------------------
\* C5: Completion correctness. The completed data of a second atom b without
\* direct samples, completed under operation k from a = map[k][b], has as
\* many samples as the record has entries for a, in their order; the j-th
\* force array has, at atom i, the j-th source force array's row map[k][i]
\* rotated by the operation's Cartesian transform, and the j-th pair is the
\* unrotated first-atom displacement with the rotated source displacement.
\* ------------------------------------------------------------------------
C5_CompletionCorrect ==
    \A d \in 1 .. Len(disp_pairs) :
        LET rec == RecordOf(d)
            map == ReducedMapOf(rec)
        IN  \A b \in Atoms \ DirectAtoms(rec) :
                LET k == copy_ops[d][b]
                    a == map[k][b]
                    S == similarity_transformation(Lattice, ReducedOf(rec)[k])
                    pos == PositionsOf(rec, a)
                IN  /\ Len(pos) >= 1
                    /\ Len(disp_pairs[d][b]) = Len(pos)
                    /\ ~ sets_of_forces[d][b].none
                    /\ Len(sets_of_forces[d][b].list) = Len(pos)
                    /\ \A j \in 1 .. Len(pos) :
                          /\ disp_pairs[d][b][j] =
                                <<rec.displacement,
                                  Dot(S, rec.second_atoms[pos[j]].displacement)>>
                          /\ \A i \in Atoms :
                                sets_of_forces[d][b].list[j][i] =
                                    Dot(S, rec.second_atoms[pos[j]].forces[map[k][i]])

\* A second atom was completed from another atom that has two samples, under
\* an operation that moves atoms and changes vectors
C5_Witness ==
    \E d \in 1 .. Len(disp_pairs) :
        LET rec == RecordOf(d)
            map == ReducedMapOf(rec)
        IN  \E b \in Atoms \ DirectAtoms(rec) :
                /\ map[copy_ops[d][b]][b] # b
                /\ Len(disp_pairs[d][b]) >= 2
                /\ disp_pairs[d][b][1][2] # rec.second_atoms[PositionsOf(rec, map[copy_ops[d][b]][b])[1]].displacement

\* ------------------------------------------------------------------------
\* Notions shared by the properties of the fit
\* ------------------------------------------------------------------------
\* _fit has just run for the first atom LastFitted, and disp_pairs and
\* sets_of_forces still hold the data it was given
AfterFit == ui > 1 /\ pc \in {"for_first", "done"}

LastFitted == unique_first_atom_nums[ui - 1]

\* The rotation atom map of the full site symmetry of first atom a
SiteMapOf(a) == get_positions_sent_by_rot_inv(RelPositions(a), get_site_symmetry(a))

\* The (direction, operation, sample) triples that give the rows of the
\* system of second atom b in the fit of first atom a
Triples(a, b) ==
    UNION { { <<d, s, j>> : j \in 1 .. Len(disp_pairs[d][SiteMapOf(a)[s][b]]) } :
            <<d, s>> \in (1 .. Len(disp_pairs)) \X (1 .. Len(get_site_symmetry(a))) }

LexLess(t, u) ==
    \/ t[1] < u[1]
    \/ t[1] = u[1] /\ t[2] < u[2]
    \/ t[1] = u[1] /\ t[2] = u[2] /\ t[3] < u[3]

\* The row that triple t gives, directions outermost and samples innermost
RowIndex(t, T) == 1 + Cardinality({ u \in T : LexLess(u, t) })

\* row is the 16-column design row of the rotated displacements Su1, Su2
IsDesignRow(row, Su1, Su2) ==
    /\ Len(row) = 16
    /\ row[1] = 1
    /\ \A c \in 1 .. 3 : row[1 + c] = Su1[c] /\ row[4 + c] = Su2[c]
    /\ \A p \in 1 .. 3 : \A q \in 1 .. 3 : row[7 + 3 * (p - 1) + q] = Su1[p] * Su2[q]

\* ------------------------------------------------------------------------
\* C10: Row alignment of the fitted system. After collection and completion
\* every second atom has a non-null list of displacement pairs and a non-null
\* list of forces of equal length; and in a fit, for every second atom b and
\* target atom i, the stacked displacement matrix and the stacked force
\* matrix given to _solve have one row per (direction, site-symmetry
\* operation s, sample of the atom s maps b to), in that order, and row r of
\* both comes from the same triple.
\* ------------------------------------------------------------------------
C10_RowAlignment ==
    /\ \A d \in 1 .. Len(disp_pairs) : \A b \in Atoms :
          /\ ~ sets_of_forces[d][b].none
          /\ Len(disp_pairs[d][b]) >= 1
          /\ Len(disp_pairs[d][b]) = Len(sets_of_forces[d][b].list)
    /\ AfterFit =>
          LET a == LastFitted
              map == SiteMapOf(a)
          IN  \A b \in Atoms : \A i \in Atoms :
                LET sys == fc3[a][b][i].of
                    T == Triples(a, b)
                IN  /\ Len(sys.disps) = Cardinality(T)
                    /\ Len(sys.forces) = Cardinality(T)
                    /\ \A t \in T :
                          LET r == RowIndex(t, T)
                              S == similarity_transformation(Lattice, get_site_symmetry(a)[t[2]])
                              src == map[t[2]][b]
                              pair == disp_pairs[t[1]][src][t[3]]
                              forces == sets_of_forces[t[1]][src].list[t[3]]
                          IN  /\ IsDesignRow(sys.disps[r], Dot(S, pair[1]), Dot(S, pair[2]))
                              /\ sys.forces[r] = Dot(S, forces[map[t[2]][i]])

\* A fit with two directions in which the second atoms have different
\* numbers of samples and one of them was completed by symmetry
C10_Witness ==
    /\ AfterFit
    /\ Len(disp_pairs) >= 2
    /\ \E b1 \in Atoms, b2 \in Atoms : Len(disp_pairs[1][b1]) # Len(disp_pairs[1][b2])
    /\ \E b \in Atoms : copy_ops[1][b] # 0

\* The first-atom numbers of the dataset
FirstAtomSet == { dataset.first_atoms[r].number : r \in 1 .. Len(dataset.first_atoms) }

\* The positions, in dataset order, of the records of first atom a
RecordsOf(a) ==
    SortedSeq({ r \in 1 .. Len(dataset.first_atoms) : dataset.first_atoms[r].number = a })

RECURSIVE ForwardSum(_, _, _)
\* Zero plus the forward blocks (rows 1..3 of the coefficients of target atom
\* i) of the fits of second atoms 0 .. n of first atom a, added in that order
ForwardSum(a, i, n) ==
    IF n < 0 THEN Zero
    ELSE Add(ForwardSum(a, i, n - 1),
             [kind |-> "slice", rows |-> <<1, 4>>, of |-> fc3[a][n][i].of])

\* ------------------------------------------------------------------------
\* C9: fc2 symmetrization. After the fit of first atom a, fc2[a] is the sum
\* over all NumAtom second atoms of the forward blocks (coefficient rows 1..3)
\* of that fit, divided once by NumAtom; fc3[a, b] holds rows 7..15; the
\* reverse block (rows 4..6) and the constant term (row 0) are in no tensor.
\* A first atom that was not fitted has fc2 and fc3 zero.
\* ------------------------------------------------------------------------
C9_Fc2Symmetrization ==
    \A a \in Atoms : \A i \in Atoms :
        IF fit_count[a] = 0
        THEN /\ fc2[a][i] = Zero
             /\ \A b \in Atoms : fc3[a][b][i] = Zero
        ELSE /\ fc2[a][i] = Div(ForwardSum(a, i, NumAtom - 1), NumAtom)
             /\ \A b \in Atoms :
                   /\ fc3[a][b][i].kind = "slice"
                   /\ fc3[a][b][i].rows = <<7, 16>>
                   /\ fc3[a][b][i].of.kind = "lstsq"

\* run() returned after fitting two first atoms
C9_Witness ==
    /\ pc = "done"
    /\ \E a1 \in Atoms, a2 \in Atoms : a1 # a2 /\ fit_count[a1] = 1 /\ fit_count[a2] = 1

\* ------------------------------------------------------------------------
\* C8: Disjoint first-atom writes. The fit of first atom a changes only
\* fc2[a] and fc3[a, b], assigning each fc3[a, b] exactly once; it leaves the
\* slices of every other first atom, fc4 and the dataset unchanged, and no
\* other step changes fc2, fc3 or the dataset. The fitted slices of a are
\* what the fit of a alone, on zero tensors, gives from the dataset: they do
\* not depend on the fits of the other first atoms.
\* ------------------------------------------------------------------------
RECURSIVE CollectedFor(_, _)
\* The data _calculate collects from the first n records of first atom a
CollectedFor(a, n) ==
    IF n = 0 THEN << >>
    ELSE Append(CollectedFor(a, n - 1),
                collect_disp_pairs_and_forces(dataset.first_atoms[RecordsOf(a)[n]]))

\* The fit of first atom a alone, on zero tensors
FitAlone(a) ==
    LET c == CollectedFor(a, Len(RecordsOf(a)))
    IN  fit([fc2 |-> [x \in Atoms |-> [i \in Atoms |-> Zero]],
             fc3 |-> [x \in Atoms |-> [b \in Atoms |-> [i \in Atoms |-> Zero]]],
             writes |-> [x \in Atoms |-> [b \in Atoms |-> 0]]],
            a,
            [d \in 1 .. Len(c) |-> c[d].disp_pairs],
            [d \in 1 .. Len(c) |-> c[d].sets_of_forces])

C8_FitFrame ==
    /\ dataset' = dataset
    /\ IF fit_count' # fit_count
       THEN LET a == unique_first_atom_nums[ui]
                alone == FitAlone(a)
            IN  /\ fc4' = fc4
                /\ \A x \in Atoms \ {a} :
                      fc2'[x] = fc2[x] /\ fc3'[x] = fc3[x] /\ fc3_writes'[x] = fc3_writes[x]
                /\ \A b \in Atoms : fc3_writes'[a][b] = fc3_writes[a][b] + 1
                /\ fc2'[a] = alone.fc2[a]
                /\ fc3'[a] = alone.fc3[a]
       ELSE fc2' = fc2 /\ fc3' = fc3 /\ fc3_writes' = fc3_writes

\* Every first atom is fitted at most once, and each fc3[a, b] is assigned
\* once per fit of a: with the frame above, the slices of a fitted first atom
\* stay what its fit alone gave, up to and including the final tensors
C8_FittedSlices ==
    \A a \in Atoms :
        /\ fit_count[a] <= 1
        /\ \A b \in Atoms : fc3_writes[a][b] = fit_count[a]
        /\ fit_count[a] = 0 =>
              /\ \A i \in Atoms : fc2[a][i] = Zero
              /\ \A b \in Atoms : \A i \in Atoms : fc3[a][b][i] = Zero

C8_DisjointWrites == [][C8_FitFrame]_vars /\ []C8_FittedSlices

\* Two first atoms were fitted, the second one after the first one's slices
\* were written
C8_Witness ==
    /\ AfterFit
    /\ ui > 2
    /\ fit_count[unique_first_atom_nums[1]] = 1
    /\ fit_count[unique_first_atom_nums[2]] = 1
    /\ fc3[unique_first_atom_nums[1]][0][0] # fc3[unique_first_atom_nums[2]][0][0]

\* ------------------------------------------------------------------------
\* C7: Order of fits and distribution. No first atom is fitted more than
\* once and distribute_fc4 is not called more than once; when distribute_fc4
\* is called every distinct first-atom number of the dataset has been fitted
\* exactly once and no other atom has; every fit is given the data of all the
\* records of its first atom, in dataset order; a run that returns has called
\* distribute_fc4 exactly once; and no step follows the call.
\* ------------------------------------------------------------------------
C7_Counts ==
    /\ \A a \in Atoms : fit_count[a] <= 1
    /\ \A a \in Atoms \ FirstAtomSet : fit_count[a] = 0
    /\ dist_count <= 1
    /\ (pc = "done") <=> (dist_count = 1)
    /\ dist_count = 1 => \A a \in FirstAtomSet : fit_count[a] = 1
    /\ AfterFit =>
          /\ collected = RecordsOf(LastFitted)
          /\ Len(disp_pairs) = Len(collected)
          /\ Len(sets_of_forces) = Len(collected)

C7_NothingAfterDistribution ==
    /\ dist_count >= 1 => (fit_count' = fit_count /\ dist_count' = dist_count /\ fc2' = fc2 /\ fc3' = fc3)
    /\ (dist_count' # dist_count) =>
          /\ dist_count' = dist_count + 1
          /\ \A a \in FirstAtomSet : fit_count[a] = 1
    /\ \A a \in Atoms : fit_count'[a] # fit_count[a] =>
          /\ fit_count'[a] = fit_count[a] + 1
          /\ a = unique_first_atom_nums[ui]

HandOver == pc = "for_first" /\ ui > Len(unique_first_atom_nums)

C1_Fc4PopulatedAtHandOver ==
    HandOver =>
        \A a \in Atoms :
            IF a \in FirstAtomSet THEN fc4[a] # Zero ELSE fc4[a] = Zero

\* ------------------------------------------------------------------------
\* C2: A record without second-atom samples.
\* ------------------------------------------------------------------------
\* The record _calculate is at is a record of the current first atom
AtOwnRecord ==
    /\ pc = "for_record"
    /\ ri <= Len(dataset.first_atoms)
    /\ dataset.first_atoms[ri].number = unique_first_atom_nums[ui]

\* C2 as stated: run() does not fail on a record that has no second-atom
\* samples (_collect_disp_pairs_and_forces returns for it).
C2_NoCrashOnZeroSamples ==
    pc = "abort" => Len(dataset.first_atoms[ri].second_atoms) > 0

\* C2 as amended: for a record with no second-atom samples completion fails
\* its assertion at second atom 0, so run() aborts when it reaches the record;
\* the record's first atom is never fitted and its fc2 and fc3 slices stay zero.
C2_ZeroSamplesState ==
    \A r \in 1 .. Len(dataset.first_atoms) :
        Len(dataset.first_atoms[r].second_atoms) = 0 =>
            LET a == dataset.first_atoms[r].number
            IN  /\ fit_count[a] = 0
                /\ \A i \in Atoms : fc2[a][i] = Zero
                /\ \A b \in Atoms : \A i \in Atoms : fc3[a][b][i] = Zero
                /\ pc # "done"

C2_ZeroSamplesStep ==
    (AtOwnRecord /\ Len(dataset.first_atoms[ri].second_atoms) = 0) =>
        /\ pc' = "abort"
        /\ failed_pair' = <<dataset.first_atoms[ri].number, 0>>
        /\ diag' = AssertionError

C2_ZeroSamplesAbort == []C2_ZeroSamplesState /\ [][C2_ZeroSamplesStep]_vars

\* run() aborted at a record without second-atom samples, after another
\* first atom had been fitted
C2_Witness ==
    /\ pc = "abort"
    /\ Len(dataset.first_atoms[ri].second_atoms) = 0
    /\ ui > 1
    /\ failed_pair = <<dataset.first_atoms[ri].number, 0>>

\* ------------------------------------------------------------------------
\* C3: The failure of symmetry completion.
\* ------------------------------------------------------------------------
\* The second atoms of a record that have no direct sample and that no
\* operation of the reduced site symmetry maps to an atom with direct samples
\* of that record
Uncompletable(rec) ==
    { b \in Atoms \ DirectAtoms(rec) :
        \A k \in 1 .. Len(ReducedMapOf(rec)) : ReducedMapOf(rec)[k][b] \notin DirectAtoms(rec) }

\* C3 as stated: when completion finds no operation, run() aborts, the
\* diagnostic names the offending (first atom, second atom) pair and
\* distribute_fc4 is not called.
C3_DiagnosticNamesPair ==
    pc = "abort" => (diag.atoms = failed_pair /\ dist_count = 0)

\* C3 as amended: when completion finds no operation for some second atom of
\* a record, run() aborts at that record, and only then; the failure is the
\* AssertionError with the fixed message "Something is wrong.", which names no
\* atom; it is raised at the smallest such second atom; nothing runs after it
\* and distribute_fc4 is never called.
C3_AbortState ==
    pc = "abort" =>
        LET rec == dataset.first_atoms[ri]
        IN  /\ diag = [message |-> "Something is wrong.", atoms |-> << >>]
            /\ dist_count = 0
            /\ Uncompletable(rec) # {}
            /\ failed_pair[1] = rec.number
            /\ failed_pair[2] \in Uncompletable(rec)
            /\ \A b \in Uncompletable(rec) : failed_pair[2] <= b
            /\ ~ ENABLED Next

C3_AbortStep ==
    /\ (AtOwnRecord /\ Uncompletable(dataset.first_atoms[ri]) # {}) => pc' = "abort"
    /\ (pc # "abort" /\ pc' = "abort") =>
          (AtOwnRecord /\ Uncompletable(dataset.first_atoms[ri]) # {})
    /\ pc # "abort" => (diag = NoError /\ failed_pair = << >>)

C3_AssertionAborts == []C3_AbortState /\ [][C3_AbortStep]_vars

\* run() aborted at a second atom other than atom 0, after another first atom
\* had been fitted
C3_Witness ==
    /\ pc = "abort"
    /\ failed_pair[2] > 0
    /\ ui > 1
    /\ fit_count[unique_first_atom_nums[1]] = 1

====
